---- MODULE Spec2Model ----
(***************************************************************************)
(* A model of the TestQueue engine of src/index.js: a tree of queues, the  *)
(* builder calls, run(), and every promise callback the engine registers.  *)
(* JavaScript runs one callback to completion at a time, so each action is *)
(* one callback (with every synchronous call it makes); `tasks` is the     *)
(* FIFO of promise reactions that are ready, `ext` the completions that    *)
(* the outside world (timers, I/O) still owes.                             *)
(***************************************************************************)
EXTENDS Integers, Sequences, FiniteSets, TLC

\* ------------------------------------------------------------- bounds
MaxQueues == 3      \* queue objects: 1 is the queue the user runs
MaxTests == 3       \* addTest calls over the whole tree
MaxSpecial == 1     \* builder calls other than a plain passing/failing leaf
MaxRuns == 2        \* run() calls the user makes on queue 1
MaxOverlap == 2     \* entries in a tree whose user calls run() during a run

Queues == 1..MaxQueues
Root == 1

\* ------------------------------------------------------------- inputs
\* A leaf test function, by what it does with the (pass, fail) callbacks it
\* is handed: the calls it makes before it returns, the calls it makes from
\* a later callback, and what it returns.
Leaf(s, l, r) == [type |-> "leaf", sync |-> s, later |-> l, ret |-> r]

PassSync == Leaf(<<"pass">>, <<>>, "undefined")
FailSync == Leaf(<<"fail">>, <<>>, "undefined")
PassLater == Leaf(<<>>, <<"pass">>, "undefined")
FailLater == Leaf(<<>>, <<"fail">>, "undefined")
Throws == Leaf(<<"throw">>, <<>>, "undefined")
ReturnsRejected == Leaf(<<>>, <<>>, "rejected")
InfoPass == Leaf(<<"info", "pass">>, <<>>, "undefined")
InfoFailLater == Leaf(<<"info">>, <<"fail">>, "undefined")
PassFail == Leaf(<<"pass", "fail">>, <<>>, "undefined")
FailPassLater == Leaf(<<"fail">>, <<"pass">>, "undefined")
PassThrow == Leaf(<<"pass", "throw">>, <<>>, "undefined")

PlainLeafFns == {PassSync, FailSync}
SpecialLeafFns == {PassLater, FailLater, Throws, ReturnsRejected, InfoPass,
                   InfoFailLater, PassFail, FailPassLater, PassThrow}
LeafFns == PlainLeafFns \cup SpecialLeafFns

\* A nested queue as an entry's runnable.
SubQueue(c) == [type |-> "queue", queue |-> c]

\* setup and teardown functions, by how they end.
NoOp == "ok"
HookFns == {"async", "rejects", "throws"}

\* The name the user gives the i-th entry of a queue, and the values a test
\* hands to pass, to fail, to throw and to emit('info', ...).
TestName(i) == <<"a", "b", "c", "d", "e", "f">>[i]
PassValue == "v"
FailValue == "E"
ThrownValue == "X"
InfoArgs == <<"msg">>

\* ------------------------------------------------------------- state
VARIABLES
    stopOnFail,     \* [q] this.stopOnFail
    setupFn,        \* [q] this.setupFn
    teardownFn,     \* [q] this.teardownFn
    tests,          \* [q] this.tests: sequence of [name, fn]
    cursor,         \* [q] this._testQueueCursor
    passed,         \* [q] this.passed
    failed,         \* [q] this.failed
    resolver,       \* [q] the promise this._testQueuePass/_testQueueFail settle
    promises,       \* the promises run() has created, in creation order
    relays,         \* [q] the relay listeners a parent attached to q
    tasks,          \* promise reactions that are ready, first in first out
    ext,            \* completions still owed by timers or I/O
    special,        \* builder calls spent of MaxSpecial
    toConsole,      \* whether TestQueue.toConsole was applied to the queue run
    wrapped,        \* the promises the run() of toConsole has returned
    trace           \* everything observable that happened, in order

config == <<stopOnFail, setupFn, teardownFn, tests, special, toConsole>>
mvars == <<cursor, passed, failed, resolver, promises, relays, tasks, ext, wrapped,
           trace>>
vars == <<stopOnFail, setupFn, teardownFn, tests, special, toConsole,
          cursor, passed, failed, resolver, promises, relays, tasks, ext, wrapped,
          trace>>

\* The mutable part of the state as one record, so that a handler's nested
\* synchronous calls compose.
Cur ==
    [cursor |-> cursor, passed |-> passed, failed |-> failed,
     resolver |-> resolver, promises |-> promises, relays |-> relays,
     tasks |-> tasks, ext |-> ext, wrapped |-> wrapped, trace |-> trace,
     exc |-> FALSE]

Commit(M) ==
    \E m \in {M} :
        /\ cursor' = m.cursor
        /\ passed' = m.passed
        /\ failed' = m.failed
        /\ resolver' = m.resolver
        /\ promises' = m.promises
        /\ relays' = m.relays
        /\ tasks' = m.tasks
        /\ ext' = m.ext
        /\ wrapped' = m.wrapped
        /\ trace' = m.trace
        /\ UNCHANGED config

\* function TestQueue(options): the queue the user runs is built with either
\* option; the others exist once addTest nests them.
Init ==
    /\ stopOnFail \in {f \in [Queues -> BOOLEAN] : \A q \in Queues \ {Root} : f[q]}
    /\ setupFn = [q \in Queues |-> NoOp]
    /\ teardownFn = [q \in Queues |-> NoOp]
    /\ tests = [q \in Queues |-> <<>>]
    /\ cursor = [q \in Queues |-> 0]
    /\ passed = [q \in Queues |-> 0]
    /\ failed = [q \in Queues |-> 0]
    /\ resolver = [q \in Queues |-> 0]
    /\ promises = <<>>
    /\ relays = [q \in Queues |-> <<>>]
    /\ tasks = <<>>
    /\ ext = {}
    /\ special = 0
    /\ toConsole = FALSE
    /\ wrapped = <<>>
    /\ trace = <<>>


\* ------------------------------------------------------------- helpers
NoResults == [passed |-> 0, failed |-> 0]
NoWaiter == [q |-> 0, name |-> ""]

\* The then(print, print) that the run() of toConsole hangs on the promise.
ConsoleWaiter == [q |-> -1, name |-> ""]

\* The queues nested somewhere in the tree, and the number of entries added.
Nested == {tests[q][i].fn.queue : <<q, i>> \in
              {x \in Queues \X (1..MaxTests) :
                  /\ x[2] <= Len(tests[x[1]])
                  /\ tests[x[1]][x[2]].fn.type = "queue"}}
RECURSIVE SumLen(_)
SumLen(S) == IF S = {} THEN 0
             ELSE LET q == CHOOSE x \in S : TRUE
                  IN Len(tests[q]) + SumLen(S \ {q})
TotalTests == SumLen(Queues)
Attached(q) == q = Root \/ q \in Nested
Building == promises = <<>>

\* Relay listeners that all hand their arguments on unchanged.
RelayArgsVerbatim(ev, name, args) == args

\* What a relay listener hands to the parent's emit (index.js 86-92): pass,
\* fail and info go through unchanged, start gets the entry's name put in
\* front, finish keeps its first argument and gets the name appended.
RelayArgs(ev, name, args) ==
    CASE ev = "start" -> <<name>> \o args
      [] ev = "finish" -> <<Head(args), name>>
      [] OTHER -> args

\* this.emit(ev, args...) on queue q: the event on q itself, then, listener by
\* listener in the order they were attached, what each relay emits on the
\* parent (and so on up the tree). src is the queue the event started on.
RECURSIVE EmitSeq(_, _, _, _, _), RelayAll(_, _, _, _, _)
EmitSeq(rel, q, ev, args, src) ==
    <<[k |-> "emit", q |-> q, ev |-> ev, args |-> args, src |-> src]>>
        \o RelayAll(rel, rel[q], ev, args, src)
RelayAll(rel, ls, ev, args, src) ==
    IF ls = <<>> THEN <<>>
    ELSE EmitSeq(rel, Head(ls).to, ev, RelayArgs(ev, Head(ls).name, args), src)
            \o RelayAll(rel, Tail(ls), ev, args, src)

Emit(M, q, ev, args) ==
    [M EXCEPT !.trace = @ \o EmitSeq(M.relays, q, ev, args, q)]

Enqueue(M, t) == [M EXCEPT !.tasks = Append(@, t)]

\* run() going on to emit start without waiting for setup's promise.
CallSetupNoAwait(M, q, p) ==
    CASE setupFn[q] = "ok" -> Enqueue(M, [t |-> "start", q |-> q])
      [] setupFn[q] = "async" ->
            Enqueue([M EXCEPT !.ext = @ \cup {[t |-> "setup", q |-> q, id |-> p]}],
                    [t |-> "start", q |-> q])
      [] setupFn[q] = "rejects" -> M
      [] OTHER -> [M EXCEPT !.exc = TRUE]

\* Promise.resolve(this.setupFn()).then(emit start).then(_testQueueNext)
\* (index.js 65-69), by how setupFn ends.
CallSetup(M, q, p) ==
    CASE setupFn[q] = "ok" -> Enqueue(M, [t |-> "start", q |-> q])
      [] setupFn[q] = "async" ->
            [M EXCEPT !.ext = @ \cup {[t |-> "setup", q |-> q, id |-> p]}]
      [] setupFn[q] = "rejects" -> M
      [] OTHER -> [M EXCEPT !.exc = TRUE]

\* run() keeping the pass and fail functions of a promise that is pending.
DoRunKeepsResolver(M, q, waiter) ==
    LET p == Len(M.promises) + 1
        keep == M.resolver[q] # 0 /\ M.promises[M.resolver[q]].state = "pending"
        M1 == [M EXCEPT
                  !.cursor[q] = 0,
                  !.passed[q] = 0,
                  !.failed[q] = 0,
                  !.promises = Append(@, [q |-> q, state |-> "pending",
                                          value |-> NoResults, waiter |-> waiter]),
                  !.resolver[q] = IF keep THEN @ ELSE p,
                  !.trace = @ \o <<[k |-> "run", q |-> q, p |-> p],
                                   [k |-> "setup", q |-> q]>>]
    IN CallSetup(M1, q, p)

\* run() without the three resets of index.js 56-58.
DoRunNoReset(M, q, waiter) ==
    LET p == Len(M.promises) + 1
        M1 == [M EXCEPT
                  !.promises = Append(@, [q |-> q, state |-> "pending",
                                          value |-> NoResults, waiter |-> waiter]),
                  !.resolver[q] = p,
                  !.trace = @ \o <<[k |-> "run", q |-> q, p |-> p],
                                   [k |-> "setup", q |-> q]>>]
    IN CallSetup(M1, q, p)

\* TestQueue.prototype.run, up to its return (or its throwing).
DoRun(M, q, waiter) ==
    LET p == Len(M.promises) + 1
        M1 == [M EXCEPT
                  !.cursor[q] = 0,
                  !.passed[q] = 0,
                  !.failed[q] = 0,
                  !.promises = Append(@, [q |-> q, state |-> "pending",
                                          value |-> NoResults, waiter |-> waiter]),
                  !.resolver[q] = p,
                  !.trace = @ \o <<[k |-> "run", q |-> q, p |-> p],
                                   [k |-> "setup", q |-> q]>>]
    IN CallSetup(M1, q, p)

\* _onFinish calling teardown without hanging the settling callback on it.
CallTeardownNoThen(M, q, results) == M

\* Promise.resolve(this.teardownFn()).then(settle) (index.js 160-168), by how
\* teardownFn ends.
CallTeardown(M, q, results) ==
    CASE teardownFn[q] = "ok" ->
            Enqueue(M, [t |-> "settle", q |-> q, res |-> results])
      [] teardownFn[q] = "async" ->
            [M EXCEPT !.ext = @ \cup {[t |-> "teardown", q |-> q, res |-> results,
                                       id |-> Len(M.trace)]}]
      [] OTHER -> M

\* The results record _onFinish builds (index.js 153-156).
Results(M, q) == [passed |-> M.passed[q], failed |-> M.failed[q]]

\* TestQueue.prototype._onFinish
DoFinish(M, q) ==
    LET results == Results(M, q)
        M1 == Emit(M, q, "finish", <<results>>)
        M2 == [M1 EXCEPT !.trace = Append(@, [k |-> "teardown", q |-> q])]
    IN CallTeardown(M2, q, results)

\* pass and fail callbacks that run their handler on every call.
SettleLeafAlways(R, q, name, how, value) ==
    [m |-> Enqueue(R.m, [t |-> how, q |-> q, name |-> name, value |-> value]),
     settled |-> TRUE]

\* The pass and fail callbacks of a leaf's promise: only the first call of
\* either settles it, and its reaction (_onPass or _onError) becomes ready.
SettleLeaf(R, q, name, how, value) ==
    IF R.settled THEN R
    ELSE [m |-> Enqueue(R.m, [t |-> how, q |-> q, name |-> name, value |-> value]),
          settled |-> TRUE]

\* A test function that throws while the Promise constructor runs it: the
\* constructor catches the throw and rejects the promise with it.
ThrowIgnored(R, q, name) == R
Thrown(R, q, name) == SettleLeaf(R, q, name, "onError", ThrownValue)

\* The calls a test function makes, in order; a throw ends them and rejects
\* the promise if it is still pending.
RECURSIVE ExecCalls(_, _, _, _)
ExecCalls(R, q, name, calls) ==
    IF calls = <<>> THEN R
    ELSE LET c == Head(calls) IN
         CASE c = "pass" ->
                ExecCalls(SettleLeaf(R, q, name, "onPass", PassValue), q, name, Tail(calls))
           [] c = "fail" ->
                ExecCalls(SettleLeaf(R, q, name, "onError", FailValue), q, name, Tail(calls))
           [] c = "info" ->
                ExecCalls([R EXCEPT !.m = Emit(R.m, q, "info", InfoArgs)], q, name, Tail(calls))
           [] OTHER -> Thrown(R, q, name)

\* A constructor that took a rejected promise returned by the executor as a
\* failure of the test.
ExecutorReturnRejects(R, q, name, ret) ==
    IF ret = "rejected" THEN SettleLeaf(R, q, name, "onError", "R") ELSE R

\* What the Promise constructor does with the value its executor returns:
\* nothing.
ExecutorReturn(R, q, name, ret) == R

\* new Promise(test.fn.bind(this)).then(_onPass, _onError) (index.js 101-105)
DispatchLeaf(M, q, i) ==
    LET test == tests[q][i]
        M1 == [M EXCEPT !.trace = Append(@, [k |-> "dispatch", q |-> q, i |-> i])]
        R1 == ExecCalls([m |-> M1, settled |-> FALSE], q, test.name, test.fn.sync)
        R2 == ExecutorReturn(R1, q, test.name, test.fn.ret)
    IN IF test.fn.later = <<>> THEN R2.m
       ELSE [R2.m EXCEPT !.ext = @ \cup {[t |-> "leaf", q |-> q, name |-> test.name,
                                          settled |-> R2.settled,
                                          calls |-> test.fn.later,
                                          id |-> Len(M.trace)]}]

\* The nested-queue branch of _testQueueNext (index.js 86-98): attach the five
\* relay listeners, then run the nested queue and wait for its promise.
DispatchQueue(M, q, i) ==
    LET test == tests[q][i]
        c == test.fn.queue
        M1 == [M EXCEPT
                  !.relays[c] = Append(@, [to |-> q, name |-> test.name]),
                  !.trace = Append(@, [k |-> "dispatch", q |-> q, i |-> i])]
    IN DoRun(M1, c, [q |-> q, name |-> test.name])

\* _testQueueNext without ++this._testQueueCursor.
DoNextNoAdvance(M, q) ==
    IF M.cursor[q] = Len(tests[q]) THEN DoFinish(M, q)
    ELSE LET i == M.cursor[q] + 1
             M1 == IF tests[q][i].fn.type = "queue"
                   THEN DispatchQueue(M, q, i)
                   ELSE DispatchLeaf(M, q, i)
         IN [M1 EXCEPT !.exc = FALSE]

\* TestQueue.prototype._testQueueNext
DoNext(M, q) ==
    IF M.cursor[q] = Len(tests[q]) THEN DoFinish(M, q)
    ELSE LET i == M.cursor[q] + 1
             M1 == IF tests[q][i].fn.type = "queue"
                   THEN DispatchQueue(M, q, i)
                   ELSE DispatchLeaf(M, q, i)
         IN IF M1.exc THEN [M1 EXCEPT !.exc = FALSE]
            ELSE [M1 EXCEPT !.cursor[q] = @ + 1]


\* ------------------------------------------------------------- handlers
\* What a handler leaves in the trace about the entry whose outcome it is
\* told of: the counters before and after its own additions.
Outcome(M, M1, q, name, via, arg) ==
    [k |-> "outcome", q |-> q, name |-> name, via |-> via, i |-> M.cursor[q],
     arg |-> arg, before |-> Results(M, q), after |-> Results(M1, q)]

\* The failure handlers' ending with stopOnFail ignored, with stopOnFail
\* taken as always set, and with the return after _onFinish() left out.
AlwaysNext(M, q) == DoNext(M, q)
AlwaysFinish(M, q) == DoFinish(M, q)
FinishThenNext(M, q) ==
    IF stopOnFail[q] THEN DoNext(DoFinish(M, q), q) ELSE DoNext(M, q)

\* if ( this.stopOnFail ) { this._onFinish(); return; } this._testQueueNext();
FinishOrNext(M, q) ==
    IF stopOnFail[q] THEN DoFinish(M, q) ELSE DoNext(M, q)

\* _onPass without ++this.passed.
DoOnPassNoCount(M, q, name, value) ==
    LET M2 == [M EXCEPT !.trace = Append(@, Outcome(M, M, q, name, "onPass", value))]
    IN DoNext(Emit(M2, q, "pass", <<name, value>>), q)

\* TestQueue.prototype._onPass
DoOnPass(M, q, name, value) ==
    LET M1 == [M EXCEPT !.passed[q] = @ + 1]
        M2 == [M1 EXCEPT !.trace = Append(@, Outcome(M, M1, q, name, "onPass", value))]
    IN DoNext(Emit(M2, q, "pass", <<name, value>>), q)

\* TestQueue.prototype._onError
DoOnError(M, q, name, e) ==
    LET M1 == [M EXCEPT !.failed[q] = @ + 1]
        M2 == [M1 EXCEPT !.trace = Append(@, Outcome(M, M1, q, name, "onError", e))]
    IN FinishOrNext(Emit(M2, q, "fail", <<name, e>>), q)

\* TestQueue.prototype._onPassQueue
DoOnPassQueue(M, q, name, results) ==
    LET M1 == [M EXCEPT !.passed[q] = @ + results.passed]
        M2 == [M1 EXCEPT !.trace = Append(@, Outcome(M, M1, q, name, "onPassQueue", results))]
    IN DoNext(M2, q)

\* _onErrorQueue counting the nested run's rejection as a failure of its own.
DoOnErrorQueueExtra(M, q, name, results) ==
    LET M1 == [M EXCEPT !.failed[q] = @ + results.failed + 1,
                        !.passed[q] = @ + results.passed]
        M2 == [M1 EXCEPT !.trace = Append(@, Outcome(M, M1, q, name, "onErrorQueue", results))]
    IN FinishOrNext(M2, q)

\* TestQueue.prototype._onErrorQueue
DoOnErrorQueue(M, q, name, results) ==
    LET M1 == [M EXCEPT !.failed[q] = @ + results.failed,
                        !.passed[q] = @ + results.passed]
        M2 == [M1 EXCEPT !.trace = Append(@, Outcome(M, M1, q, name, "onErrorQueue", results))]
    IN FinishOrNext(M2, q)

\* The settling callback without its test of this.failed.
SettleHowResolved(M, q) == "resolved"

\* The settling callback testing this.failed >= 0.
SettleHowAtLeast(M, q) == IF M.failed[q] >= 0 THEN "rejected" ELSE "resolved"

\* if ( this.failed > 0 ) this._testQueueFail(results) else
\* this._testQueuePass(results) (index.js 162-166)
SettleHow(M, q) == IF M.failed[q] > 0 THEN "rejected" ELSE "resolved"

\* The callback _onFinish hangs on teardown's promise: it settles the promise
\* of the latest run() of q, whose reaction (the parent's _onPassQueue or
\* _onErrorQueue) becomes ready. Settling a settled promise does nothing.
DoSettle(M, q, results) ==
    LET p == M.resolver[q]
        how == SettleHow(M, q)
        w == M.promises[p].waiter
        M1 == [M EXCEPT
                  !.promises[p].state = how,
                  !.promises[p].value = results,
                  !.trace = Append(@, [k |-> "settle", q |-> q, p |-> p, how |-> how,
                                       res |-> results, now |-> Results(M, q)])]
    IN IF M.promises[p].state # "pending" THEN M
       ELSE IF w = NoWaiter THEN M1
       ELSE IF w = ConsoleWaiter
       THEN Enqueue(M1, [t |-> "print", q |-> q, p |-> p, how |-> how,
                         res |-> results])
       ELSE Enqueue(M1, [t |-> IF how = "resolved" THEN "onPassQueue"
                                                  ELSE "onErrorQueue",
                         q |-> w.q, name |-> w.name, res |-> results])

\* ------------------------------------------------------------- builder calls
\* Queues are built from the one the user runs downwards, before it is run.
\* TestQueue.prototype.addTest with a test function
AddTest(q, fn) ==
    /\ Building /\ Attached(q) /\ TotalTests < MaxTests
    /\ fn \in SpecialLeafFns => special < MaxSpecial
    /\ tests' = [tests EXCEPT ![q] = Append(@, [name |-> TestName(Len(@) + 1), fn |-> fn])]
    /\ special' = IF fn \in SpecialLeafFns THEN special + 1 ELSE special
    /\ UNCHANGED <<stopOnFail, setupFn, teardownFn, toConsole, mvars>>

\* q.addTest(name, new TestQueue({stopOnFail: opt}))
AddQueue(q, opt) ==
    LET c == Cardinality(Nested) + 2 IN
    /\ Building /\ Attached(q) /\ TotalTests < MaxTests
    /\ c \in Queues
    /\ tests' = [tests EXCEPT ![q] = Append(@, [name |-> TestName(Len(@) + 1),
                                                fn |-> SubQueue(c)])]
    /\ stopOnFail' = [stopOnFail EXCEPT ![c] = opt]
    /\ UNCHANGED <<setupFn, teardownFn, special, toConsole, mvars>>

\* TestQueue.prototype.setup
Setup(q, fn) ==
    /\ Building /\ Attached(q) /\ special < MaxSpecial
    /\ setupFn[q] = NoOp
    /\ setupFn' = [setupFn EXCEPT ![q] = fn]
    /\ special' = special + 1
    /\ UNCHANGED <<stopOnFail, teardownFn, tests, toConsole, mvars>>

\* TestQueue.prototype.teardown
Teardown(q, fn) ==
    /\ Building /\ Attached(q) /\ special < MaxSpecial
    /\ teardownFn[q] = NoOp
    /\ teardownFn' = [teardownFn EXCEPT ![q] = fn]
    /\ special' = special + 1
    /\ UNCHANGED <<stopOnFail, setupFn, tests, toConsole, mvars>>

\* TestQueue.toConsole(queue) on the queue the user runs: from then on
\* queue.run is the wrapping function of index.js 212-236.
ToConsole ==
    /\ Building /\ special < MaxSpecial
    /\ ~toConsole
    /\ toConsole' = TRUE
    /\ special' = special + 1
    /\ UNCHANGED <<stopOnFail, setupFn, teardownFn, tests, mvars>>

\* ------------------------------------------------------------- run and callbacks
RootRuns == {p \in DOMAIN promises : promises[p].q = Root}

\* What the promise of then(print, print) settles to (index.js 215-234): both
\* handlers print and return nothing, so it resolves with undefined (<<>>)
\* whichever of them ran.
ConsoleSettle(how, res) == [state |-> "resolved", value |-> <<>>]

\* The run() of toConsole (index.js 212-236): the prototype's run() and the
\* promise of its then(print, print), which is what the caller gets.
ConsoleRun(M) ==
    LET M1 == DoRun(M, Root, ConsoleWaiter)
    IN IF M1.exc THEN M1
       ELSE [M1 EXCEPT !.wrapped = Append(@, [of |-> Len(M.promises) + 1,
                                              state |-> "pending",
                                              value |-> <<>>])]

\* One of the two printing handlers of toConsole's run() runs.
DoPrint(M, t) ==
    LET i == CHOOSE x \in DOMAIN M.wrapped : M.wrapped[x].of = t.p
        s == ConsoleSettle(t.how, t.res)
    IN [M EXCEPT
           !.wrapped[i].state = s.state,
           !.wrapped[i].value = s.value,
           !.trace = Append(@, [k |-> "print", q |-> t.q, p |-> t.p,
                                line |-> IF t.how = "resolved" THEN "Success"
                                                               ELSE "Failure",
                                res |-> t.res])]

\* Every promise the user got from run() so far has settled.
RunSettled ==
    /\ \A p \in RootRuns : promises[p].state # "pending"
    /\ \A i \in DOMAIN wrapped : wrapped[i].state # "pending"

\* The user calls run() on the queue, for the first time or again after the
\* promise of the call before has settled.
Run ==
    /\ Cardinality(RootRuns) < MaxRuns
    /\ RunSettled
    /\ Commit(IF toConsole THEN ConsoleRun(Cur) ELSE DoRun(Cur, Root, NoWaiter))

\* The user calls run() on the queue again while the promise of an earlier
\* call is still pending: nothing in run() (index.js 54-73) refuses it.
RunAgain ==
    /\ Cardinality(RootRuns) < MaxRuns
    /\ RootRuns # {}
    /\ ~RunSettled
    /\ TotalTests <= MaxOverlap
    /\ Commit(IF toConsole THEN ConsoleRun(Cur) ELSE DoRun(Cur, Root, NoWaiter))

Pop == [Cur EXCEPT !.tasks = Tail(@)]
Ready(t) == tasks # <<>> /\ Head(tasks).t = t

\* function() { this.emit('start'); } and the readiness of the next then
StartThen ==
    /\ Ready("start")
    /\ LET q == Head(tasks).q
       IN Commit(Enqueue(Emit(Pop, q, "start", <<>>), [t |-> "next", q |-> q]))

\* this._testQueueNext.bind(this) as run()'s second then
NextThen ==
    /\ Ready("next")
    /\ Commit(DoNext(Pop, Head(tasks).q))

OnPass ==
    /\ Ready("onPass")
    /\ LET t == Head(tasks) IN Commit(DoOnPass(Pop, t.q, t.name, t.value))

OnError ==
    /\ Ready("onError")
    /\ LET t == Head(tasks) IN Commit(DoOnError(Pop, t.q, t.name, t.value))

OnPassQueue ==
    /\ Ready("onPassQueue")
    /\ LET t == Head(tasks) IN Commit(DoOnPassQueue(Pop, t.q, t.name, t.res))

OnErrorQueue ==
    /\ Ready("onErrorQueue")
    /\ LET t == Head(tasks) IN Commit(DoOnErrorQueue(Pop, t.q, t.name, t.res))

TeardownThen ==
    /\ Ready("settle")
    /\ LET t == Head(tasks) IN Commit(DoSettle(Pop, t.q, t.res))

ConsoleThen ==
    /\ Ready("print")
    /\ Commit(DoPrint(Pop, Head(tasks)))

\* The promise an asynchronous setup returned resolves.
SetupResolves ==
    \E e \in ext :
        /\ e.t = "setup"
        /\ Commit(Enqueue([Cur EXCEPT !.ext = @ \ {e}], [t |-> "start", q |-> e.q]))

\* The promise an asynchronous teardown returned resolves.
TeardownResolves ==
    \E e \in ext :
        /\ e.t = "teardown"
        /\ Commit(Enqueue([Cur EXCEPT !.ext = @ \ {e}],
                          [t |-> "settle", q |-> e.q, res |-> e.res]))

\* A test function's later callback runs and makes its calls.
LeafLater ==
    \E e \in ext :
        /\ e.t = "leaf"
        /\ Commit(ExecCalls([m |-> [Cur EXCEPT !.ext = @ \ {e}], settled |-> e.settled],
                            e.q, e.name, e.calls).m)

Build ==
    \/ \E q \in Queues, fn \in LeafFns : AddTest(q, fn)
    \/ \E q \in Queues, opt \in BOOLEAN : AddQueue(q, opt)
    \/ \E q \in Queues, fn \in HookFns : Setup(q, fn)
    \/ \E q \in Queues, fn \in HookFns : Teardown(q, fn)
    \/ ToConsole

Next ==
    \/ Build
    \/ Run
    \/ StartThen
    \/ NextThen
    \/ OnPass
    \/ OnError
    \/ OnPassQueue
    \/ OnErrorQueue
    \/ TeardownThen
    \/ ConsoleThen
    \/ SetupResolves
    \/ TeardownResolves
    \/ LeafLater

Spec == Init /\ [][Next]_vars

\* The queue with a user who does not wait for a run to settle before
\* calling run() again.
NextConcurrent ==
    \/ Next
    \/ RunAgain

SpecConcurrent == Init /\ [][NextConcurrent]_vars

\* A promise reaction that is ready is run by the event loop.
Callback ==
    \/ StartThen
    \/ NextThen
    \/ OnPass
    \/ OnError
    \/ OnPassQueue
    \/ OnErrorQueue
    \/ TeardownThen
    \/ ConsoleThen

\* The event loop runs the reactions that are ready, and what setup, teardown
\* and the test functions started (a promise that resolves, a timer whose
\* callback calls pass or fail) comes to its end. Nothing makes the user
\* build or run anything.
SpecFair ==
    /\ Spec
    /\ WF_vars(Callback)
    /\ WF_vars(SetupResolves)
    /\ WF_vars(TeardownResolves)
    /\ WF_vars(LeafLater)


\* ------------------------------------------------------------- reading the trace
Idx == DOMAIN trace
Is(j, kind, q) == trace[j].k = kind /\ trace[j].q = q

\* The run() calls of q, and the part of the trace that belongs to the call
\* at r: everything up to the next run() of the same queue.
RunsOf(q) == {j \in Idx : Is(j, "run", q)}
NextRun(q, r) ==
    LET later == {j \in (r + 1)..Len(trace) : Is(j, "run", q)}
    IN IF later = {} THEN Len(trace) + 1
       ELSE CHOOSE j \in later : \A h \in later : j <= h
Seg(q, r) == (r + 1)..(NextRun(q, r) - 1)
InSeg(q, r, kind) == {j \in Seg(q, r) : Is(j, kind, q)}

Quiescent == tasks = <<>> /\ ext = {}

\* The first of a test function's calls that settles its promise, "none" if
\* it makes none.
RECURSIVE FirstCall(_)
FirstCall(calls) ==
    IF calls = <<>> THEN "none"
    ELSE IF Head(calls) \in {"pass", "fail", "throw"} THEN Head(calls)
    ELSE FirstCall(Tail(calls))
Verdict(fn) == FirstCall(fn.sync \o fn.later)
Passes(fn) == fn.type = "leaf" /\ Verdict(fn) = "pass"
Fails(fn) == fn.type = "leaf" /\ Verdict(fn) \in {"fail", "throw"}

Entries(q) == 1..Len(tests[q])
AllLeaves(q) == \A i \in Entries(q) : tests[q][i].fn.type = "leaf"
PassCount(q) == Cardinality({i \in Entries(q) : Passes(tests[q][i].fn)})
FailCount(q) == Cardinality({i \in Entries(q) : Fails(tests[q][i].fn)})
HooksComplete(q) == setupFn[q] \in {"ok", "async"} /\ teardownFn[q] \in {"ok", "async"}

\* Nothing in the tree can stall a run: every hook completes and every leaf
\* reports an outcome.
Completes ==
    \A q \in Queues :
        /\ HooksComplete(q)
        /\ \A i \in Entries(q) :
              tests[q][i].fn.type = "leaf" => Verdict(tests[q][i].fn) # "none"

\* Every run() of q that was called has settled.
AllSettled(q) == \A r \in RunsOf(q) : promises[trace[r].p].state # "pending"

\* ------------------------------------------------------------- claims
\* C1: a run whose setup, teardown and entries all complete settles; its
\* promise resolves with {passed, failed} when failed is 0 at the end and
\* rejects with it when failed > 0, and the record's counts are the queue's
\* counters at that moment.
C1_SettlesByFailedCount ==
    /\ \A j \in Idx :
          trace[j].k = "settle" =>
              /\ trace[j].res = trace[j].now
              /\ trace[j].how = (IF trace[j].now.failed = 0 THEN "resolved" ELSE "rejected")
              /\ promises[trace[j].p].state = trace[j].how
              /\ promises[trace[j].p].value = trace[j].res
              /\ promises[trace[j].p].q = trace[j].q
    /\ (Quiescent /\ Completes) => \A q \in Queues : AllSettled(q)

C1_Witness ==
    /\ Quiescent
    /\ \E j \in Idx : Is(j, "settle", Root) /\ trace[j].how = "rejected"
                      /\ trace[j].res = [passed |-> 1, failed |-> 1]
    /\ \E j \in Idx : Is(j, "settle", 2) /\ trace[j].how = "resolved"

\* C2: a queue of N leaf entries that all pass ends every run with
\* passed = N and failed = 0, and the run's promise resolves.
C2_AllPass ==
    \A q \in Queues :
        (AllLeaves(q) /\ PassCount(q) = Len(tests[q]) /\ HooksComplete(q)) =>
            /\ \A j \in Idx :
                  Is(j, "settle", q) =>
                      /\ trace[j].how = "resolved"
                      /\ trace[j].res = [passed |-> Len(tests[q]), failed |-> 0]
            /\ Quiescent => AllSettled(q)

C2_Witness ==
    /\ Len(tests[Root]) = 3
    /\ ~stopOnFail[Root]
    /\ \E j \in Idx : Is(j, "settle", Root) /\ trace[j].res = [passed |-> 3, failed |-> 0]

\* The first entry of q that fails, when every entry before it passes
\* (0 when there is none).
FirstFail(q) ==
    LET F == {i \in Entries(q) : Fails(tests[q][i].fn)
                                 /\ \A h \in 1..(i - 1) : Passes(tests[q][h].fn)}
    IN IF F = {} THEN 0 ELSE CHOOSE i \in F : TRUE

\* C3: with stopOnFail, when the entry at index k (counted from 0) fails and
\* all before it pass, no entry after it is ever invoked, the run ends with
\* passed = k and failed = 1, and its promise rejects with those counts.
C3_StopsAtFirstFail ==
    \A q \in Queues :
        (stopOnFail[q] /\ AllLeaves(q) /\ FirstFail(q) > 0 /\ HooksComplete(q)) =>
            LET k == FirstFail(q) - 1 IN
            /\ \A j \in Idx : Is(j, "dispatch", q) => trace[j].i <= k + 1
            /\ \A j \in Idx :
                  Is(j, "settle", q) =>
                      /\ trace[j].how = "rejected"
                      /\ trace[j].res = [passed |-> k, failed |-> 1]
                      /\ trace[j].now = [passed |-> k, failed |-> 1]
            /\ Quiescent => AllSettled(q)

C3_Witness ==
    /\ stopOnFail[Root] /\ AllLeaves(Root) /\ FirstFail(Root) = 2 /\ Len(tests[Root]) = 3
    /\ \E j \in Idx : Is(j, "settle", Root) /\ trace[j].res = [passed |-> 1, failed |-> 1]

\* C4: without stopOnFail, a queue of N leaf entries of which P pass and F
\* fail invokes all N on every run, ends with passed = P and failed = F, and
\* its promise rejects exactly when F > 0.
C4_RunsAll ==
    \A q \in Queues :
        (~stopOnFail[q] /\ AllLeaves(q) /\ HooksComplete(q)
            /\ PassCount(q) + FailCount(q) = Len(tests[q])) =>
            /\ \A r \in RunsOf(q) : \A j \in InSeg(q, r, "settle") :
                  /\ trace[j].res = [passed |-> PassCount(q), failed |-> FailCount(q)]
                  /\ (trace[j].how = "rejected") <=> (FailCount(q) > 0)
                  /\ \A i \in Entries(q) :
                        Cardinality({d \in InSeg(q, r, "dispatch") :
                                        d < j /\ trace[d].i = i}) = 1
            /\ Quiescent => AllSettled(q)

C4_Witness ==
    /\ ~stopOnFail[Root] /\ AllLeaves(Root) /\ Len(tests[Root]) = 3
    /\ Fails(tests[Root][1].fn) /\ Passes(tests[Root][2].fn)
    /\ \E j \in Idx : Is(j, "settle", Root) /\ trace[j].res = [passed |-> 1, failed |-> 2]

\* Nothing below the queue the user runs can stall, and its own setup
\* completes.
CompletesUpToTeardown ==
    /\ setupFn[Root] \in {"ok", "async"}
    /\ \A q \in Queues :
          /\ q # Root => HooksComplete(q)
          /\ \A i \in Entries(q) :
                tests[q][i].fn.type = "leaf" => Verdict(tests[q][i].fn) # "none"

\* C5: in a run whose setup completes and whose dispatched entries all reach
\* an outcome, teardown is invoked exactly once, whether the entries were
\* exhausted or stopOnFail halted them, and before the promise settles.
C5_TeardownOnce ==
    \A q \in Queues : \A r \in RunsOf(q) :
        /\ Cardinality(InSeg(q, r, "teardown")) <= 1
        /\ \A j \in InSeg(q, r, "settle") :
              \E t \in InSeg(q, r, "teardown") : t < j
        /\ (Quiescent /\ CompletesUpToTeardown) =>
              Cardinality(InSeg(q, r, "teardown")) = 1

C5_Witness ==
    /\ Quiescent
    /\ \E r \in RunsOf(2) : \E j \in InSeg(2, r, "settle") : trace[j].how = "rejected"
    /\ stopOnFail[Root]
    /\ \E r \in RunsOf(Root) : InSeg(Root, r, "settle") # {}
    /\ Cardinality(RunsOf(Root)) = 2


\* The run() of q that the trace record at j belongs to.
RunAt(q, j) == CHOOSE r \in RunsOf(q) : r < j /\ j < NextRun(q, r)
OwnEmits(q, r, ev) ==
    {e \in InSeg(q, r, "emit") : trace[e].ev = ev /\ trace[e].src = q}

\* C6: in a run at most one entry is in flight, entries are dispatched in
\* insertion order, each at most once, and entry i+1 only after the outcome
\* of entry i has been determined.
C6_OneAtATimeInOrder ==
    \A q \in Queues : \A r \in RunsOf(q) :
        LET D == InSeg(q, r, "dispatch")
            O == InSeg(q, r, "outcome")
        IN /\ Cardinality(D) - Cardinality(O) \in {0, 1}
           /\ \A d \in D :
                 /\ trace[d].i = Cardinality({d2 \in D : d2 <= d})
                 /\ Cardinality({o \in O : o < d}) = trace[d].i - 1
           /\ \A o \in O :
                 /\ trace[o].i = Cardinality({o2 \in O : o2 <= o})
                 /\ trace[o].name = tests[q][trace[o].i].name
                 /\ \E d \in D : d < o /\ trace[d].i = trace[o].i

C6_Witness ==
    \E r \in RunsOf(Root) :
        /\ Cardinality(InSeg(Root, r, "dispatch")) = 3
        /\ Cardinality(InSeg(Root, r, "outcome")) = 2
        /\ \E e \in ext : e.t = "leaf" /\ ~e.settled

\* C7: the handler of a nested-queue entry whose run ended with p passes and
\* f failures adds exactly p to the parent's passed and f to its failed
\* (f = 0 when the nested run resolved), and a queue emits a fail event of
\* its own only for a failed leaf, never for a nested entry.
C7_FoldsNestedCounts ==
    /\ \A j \in Idx :
          (trace[j].k = "outcome" /\ trace[j].via \in {"onPassQueue", "onErrorQueue"}) =>
              LET q == trace[j].q
                  fn == tests[q][trace[j].i].fn
                  S == {x \in 1..(j - 1) : Is(x, "settle", fn.queue)}
                  e == trace[CHOOSE x \in S : \A y \in S : y <= x].now
              IN /\ fn.type = "queue"
                 /\ S # {}
                 /\ trace[j].after.passed = trace[j].before.passed + e.passed
                 /\ trace[j].after.failed = trace[j].before.failed + e.failed
                 /\ (trace[j].via = "onPassQueue") <=> (e.failed = 0)
    /\ \A q \in Queues : \A r \in RunsOf(q) :
          Cardinality(OwnEmits(q, r, "fail")) =
              Cardinality({o \in InSeg(q, r, "outcome") : trace[o].via = "onError"})

C7_Witness ==
    \E j \in Idx :
        /\ Is(j, "outcome", Root) /\ trace[j].via = "onErrorQueue"
        /\ trace[j].before = [passed |-> 0, failed |-> 0]
        /\ trace[j].after = [passed |-> 1, failed |-> 1]

\* The queue that holds c as an entry, and the name of that entry.
Holder(c) ==
    CHOOSE x \in Queues \X (1..MaxTests) :
        /\ x[2] <= Len(tests[x[1]])
        /\ tests[x[1]][x[2]].fn.type = "queue"
        /\ tests[x[1]][x[2]].fn.queue = c

\* C8: every pass, fail and info event a nested queue of leaf tests emits is
\* emitted on its parent with the same arguments, its start as start(n) and
\* its finish(results) as finish(results, n), n being the entry's name.
C8_RelaysEvents ==
    \A j \in Idx :
        (/\ trace[j].k = "emit"
         /\ trace[j].q # Root
         /\ trace[j].src = trace[j].q
         /\ AllLeaves(trace[j].q)) =>
            LET c == trace[j].q
                h == Holder(c)
                n == tests[h[1]][h[2]].name
                ev == trace[j].ev
            IN /\ j < Len(trace)
               /\ trace[j + 1].k = "emit"
               /\ trace[j + 1].q = h[1]
               /\ trace[j + 1].src = c
               /\ trace[j + 1].ev = ev
               /\ ev \in {"pass", "fail", "info"} => trace[j + 1].args = trace[j].args
               /\ ev = "start" => trace[j].args = <<>> /\ trace[j + 1].args = <<n>>
               /\ ev = "finish" =>
                     /\ Len(trace[j].args) = 1
                     /\ trace[j + 1].args = <<trace[j].args[1], n>>

C8_Witness ==
    \A ev \in {"pass", "fail", "info", "start", "finish"} :
        \E j \in Idx : /\ Is(j, "emit", 2) /\ trace[j].src = 2 /\ trace[j].ev = ev
                       /\ j < Len(trace)
                       /\ Is(j + 1, "emit", Root) /\ trace[j + 1].ev = ev

\* A leaf test that calls neither pass nor fail, does not throw, and returns
\* a rejected promise.
OnlyReturnsRejected(fn) ==
    fn.type = "leaf" /\ Verdict(fn) = "none" /\ fn.ret = "rejected"

C10_ThrowIsFailure ==
    \A j \in Idx :
        (/\ trace[j].k = "dispatch"
         /\ tests[trace[j].q][trace[j].i].fn.type = "leaf"
         /\ FirstCall(tests[trace[j].q][trace[j].i].fn.sync) = "throw") =>
            LET q == trace[j].q
                i == trace[j].i
                name == tests[q][i].name
                r == RunAt(q, j)
                O == {o \in InSeg(q, r, "outcome") : o > j /\ trace[o].i = i}
            IN /\ Cardinality(O) <= 1
               /\ O = {} => /\ tasks # <<>>
                            /\ Head(tasks) = [t |-> "onError", q |-> q, name |-> name,
                                              value |-> ThrownValue]
               /\ \A o \in O :
                     /\ trace[o].via = "onError"
                     /\ trace[o].after = [passed |-> trace[o].before.passed,
                                          failed |-> trace[o].before.failed + 1]
                     /\ trace[o + 1] = [k |-> "emit", q |-> q, ev |-> "fail",
                                        args |-> <<name, ThrownValue>>, src |-> q]
                     /\ Cardinality({e \in OwnEmits(q, r, "fail") :
                                        trace[e].args[1] = name}) = 1
                     /\ IF stopOnFail[q] \/ i = Len(tests[q])
                        THEN /\ OwnEmits(q, r, "finish") # {}
                             /\ InSeg(q, r, "teardown") # {}
                             /\ \A d \in InSeg(q, r, "dispatch") : d < o
                        ELSE \E d \in InSeg(q, r, "dispatch") :
                                d > o /\ trace[d].i = i + 1

C10_Witness ==
    /\ Quiescent
    /\ ~stopOnFail[Root]
    /\ Len(tests[Root]) = 3
    /\ \E j \in Idx : /\ Is(j, "outcome", Root) /\ trace[j].i = 2
                      /\ trace[j].arg = ThrownValue
    /\ \E j \in Idx : Is(j, "settle", Root) /\ trace[j].res = [passed |-> 2, failed |-> 1]


\* What the records of queue q in the run() at r are, in order: the kind of
\* each, an event of its own by its name, relayed events and what the console
\* printed left out.
OwnLabels(q, r) ==
    LET Own(x) == x.q = q /\ x.k # "print" /\ (x.k = "emit" => x.src = q)
        seq == SelectSeq(SubSeq(trace, r, NextRun(q, r) - 1), Own)
    IN [n \in DOMAIN seq |-> IF seq[n].k = "emit" THEN seq[n].ev ELSE seq[n].k]
IsPrefix(s, t) == Len(s) <= Len(t) /\ s = SubSeq(t, 1, Len(s))
EmptyRun == <<"run", "setup", "start", "finish", "teardown", "settle">>

\* C12: a queue with no entries calls setup once, emits start once and then
\* finish once with {passed: 0, failed: 0} and nothing in between, calls
\* teardown once and resolves with {passed: 0, failed: 0}.
C12_EmptyQueue ==
    \A q \in Queues : \A r \in RunsOf(q) :
        (tests[q] = <<>> /\ HooksComplete(q)) =>
            /\ IsPrefix(OwnLabels(q, r), EmptyRun)
            /\ \A e \in OwnEmits(q, r, "finish") : trace[e].args = <<NoResults>>
            /\ \A e \in OwnEmits(q, r, "start") : trace[e].args = <<>>
            /\ \A j \in InSeg(q, r, "settle") :
                  trace[j].how = "resolved" /\ trace[j].res = NoResults
            /\ Quiescent => OwnLabels(q, r) = EmptyRun

C12_Witness ==
    /\ Quiescent
    /\ tests[Root] = <<>>
    /\ teardownFn[Root] = "async"
    /\ Cardinality(RunsOf(Root)) = 2
    /\ \A r \in RunsOf(Root) : OwnLabels(Root, r) = EmptyRun

\* The outcome records of q in the run() at r.
Outcomes(q, r) == InSeg(q, r, "outcome")

\* C13: every run() starts from passed = 0, failed = 0 and cursor = 0: a
\* later run dispatches the entries again from the first, and its counts are
\* built from its own outcomes only.
C13_RerunResets ==
    \A q \in Queues : \A r \in RunsOf(q) :
        LET O == Outcomes(q, r)
            D == InSeg(q, r, "dispatch")
        IN /\ \A o \in O :
                 LET prev == {x \in O : x < o} IN
                 trace[o].before =
                    (IF prev = {} THEN NoResults
                     ELSE trace[CHOOSE x \in prev : \A y \in prev : y <= x].after)
           /\ \A d \in D : (\A x \in D : d <= x) => trace[d].i = 1
           /\ \A j \in InSeg(q, r, "settle") :
                 trace[j].res =
                    (IF O = {} THEN NoResults
                     ELSE trace[CHOOSE x \in O : \A y \in O : y <= x].after)
           /\ (NextRun(q, r) > Len(trace) /\ O = {}) =>
                 passed[q] = 0 /\ failed[q] = 0 /\ cursor[q] <= Cardinality(D)

C13_Witness ==
    /\ Quiescent
    /\ Cardinality(RunsOf(Root)) = 2
    /\ Len(tests[Root]) = 3
    /\ \A r \in RunsOf(Root) :
          \E j \in InSeg(Root, r, "settle") : trace[j].res = [passed |-> 2, failed |-> 1]

\* C14: within a run the queue's own steps come in this order, each once:
\* setup is called and awaited, the nameless start is emitted, entries are
\* dispatched, finish is emitted with the aggregated results, teardown is
\* called and awaited, and only then the promise settles.
C14_RunOrder ==
    \A q \in Queues : \A r \in RunsOf(q) :
        LET su == InSeg(q, r, "setup")
            st == OwnEmits(q, r, "start")
            D == InSeg(q, r, "dispatch")
            fi == OwnEmits(q, r, "finish")
            td == InSeg(q, r, "teardown")
            se == InSeg(q, r, "settle")
        IN /\ su = {r + 1}
           /\ Cardinality(st) <= 1 /\ Cardinality(fi) <= 1
           /\ Cardinality(td) <= 1 /\ Cardinality(se) <= 1
           /\ \A b \in st : trace[b].args = <<>>
           /\ \A d \in D : \E b \in st : b < d
           /\ \A f \in fi : /\ \E b \in st : b < f
                            /\ \A d \in D : d < f
                            /\ td # {}
                            /\ \A t \in td : \A x \in (f + 1)..(t - 1) :
                                  /\ trace[x].k = "emit"
                                  /\ trace[x].ev = "finish"
                                  /\ trace[x].src = q
           /\ \A t \in td : \E f \in fi : f < t
           /\ \A j \in se : /\ \E t \in td : t < j
                            /\ \A f \in fi : trace[f].args = <<trace[j].res>>
           /\ (\E x \in ext : x.t = "setup" /\ x.q = q /\ x.id = trace[r].p) => st = {}
           /\ (\E x \in ext : x.t = "teardown" /\ x.q = q /\ x.id \in td) => se = {}

C14_Witness ==
    /\ Quiescent
    /\ setupFn[2] = "async"
    /\ \E r \in RunsOf(2) : InSeg(2, r, "settle") # {} /\ InSeg(2, r, "dispatch") # {}
    /\ \E r \in RunsOf(Root) : InSeg(Root, r, "settle") # {}

\* The calls of a test function that would settle its promise.
SettlingCalls(fn) ==
    Len(SelectSeq(fn.sync \o fn.later, LAMBDA c : c \in {"pass", "fail", "throw"}))

\* C15: of a leaf's several calls of pass and fail (or a throw after one)
\* only the first counts: one of passed and failed grows by 1, one pass or
\* fail event is emitted for the entry, and the queue goes on once.
C15_FirstCallCounts ==
    \A j \in Idx :
        (/\ trace[j].k = "dispatch"
         /\ tests[trace[j].q][trace[j].i].fn.type = "leaf"
         /\ SettlingCalls(tests[trace[j].q][trace[j].i].fn) >= 2) =>
            LET q == trace[j].q
                i == trace[j].i
                fn == tests[q][i].fn
                r == RunAt(q, j)
                O == {o \in Outcomes(q, r) : trace[o].i = i}
                E == {e \in InSeg(q, r, "emit") :
                        /\ trace[e].src = q
                        /\ trace[e].ev \in {"pass", "fail"}
                        /\ trace[e].args[1] = tests[q][i].name}
            IN /\ Cardinality(O) <= 1
               /\ Cardinality(E) = Cardinality(O)
               /\ (Quiescent \/ NextRun(q, r) <= Len(trace)) => Cardinality(O) = 1
               /\ \A o \in O :
                     /\ trace[o].via = (IF Verdict(fn) = "pass" THEN "onPass" ELSE "onError")
                     /\ trace[o].after =
                           (IF Verdict(fn) = "pass"
                            THEN [passed |-> trace[o].before.passed + 1,
                                  failed |-> trace[o].before.failed]
                            ELSE [passed |-> trace[o].before.passed,
                                  failed |-> trace[o].before.failed + 1])
                     /\ \A e \in E : trace[e].ev = (IF Verdict(fn) = "pass" THEN "pass" ELSE "fail")
                     /\ LET nxt == {d \in InSeg(q, r, "dispatch") : trace[d].i = i + 1}
                            fin == OwnEmits(q, r, "finish")
                        IN IF i = Len(tests[q]) \/ (stopOnFail[q] /\ Verdict(fn) # "pass")
                           THEN nxt = {} /\ Cardinality(fin) = 1 /\ \A f \in fin : f > o
                           ELSE Cardinality(nxt) = 1 /\ \A d \in nxt : d > o

C15_Witness ==
    /\ Quiescent
    /\ ~stopOnFail[Root]
    /\ Len(tests[Root]) = 3
    /\ tests[Root][2].fn = FailPassLater
    /\ \E j \in Idx : Is(j, "settle", Root) /\ trace[j].res = [passed |-> 2, failed |-> 1]


\* The events that started on c and were emitted on queue q.
EmitsFrom(c, q) == {j \in Idx : Is(j, "emit", q) /\ trace[j].src = c}

\* C16: on every run of a parent, a second or later one included, each
\* pass, fail, info, start and finish event a nested queue emits is emitted
\* on the parent exactly once.
C16_RelayedOnce ==
    \A c \in Nested :
        /\ Cardinality(EmitsFrom(c, Holder(c)[1])) = Cardinality(EmitsFrom(c, c))
        /\ \A j \in EmitsFrom(c, c) :
              /\ j < Len(trace)
              /\ Is(j + 1, "emit", Holder(c)[1])
              /\ trace[j + 1].src = c
              /\ trace[j + 1].ev = trace[j].ev

\* C17: when teardown rejects or throws, the promise of a run that reached
\* teardown still settles, rejecting, once nothing is left to happen.
C17_TeardownFailureSettles ==
    \A q \in Queues : \A r \in RunsOf(q) :
        (/\ Quiescent
         /\ teardownFn[q] \in {"rejects", "throws"}
         /\ InSeg(q, r, "teardown") # {}) =>
            promises[trace[r].p].state = "rejected"

\* The depth toConsole's start and finish listeners have counted after the
\* trace record at j (index.js 194-209): a start whose first argument is a
\* name adds one, a finish whose second argument is a name takes one off.
QueueDepth(j) ==
    Cardinality({x \in 1..j : /\ Is(x, "emit", Root) /\ trace[x].ev = "start"
                              /\ Len(trace[x].args) >= 1})
      - Cardinality({x \in 1..j : /\ Is(x, "emit", Root) /\ trace[x].ev = "finish"
                                  /\ Len(trace[x].args) = 2})

\* The entries of q with the name n.
Named(q, n) == {i \in Entries(q) : tests[q][i].name = n}

\* C20: at any depth of nesting, a finish event seen on a queue with a name
\* n carries the results of the run of the nested queue held under the entry
\* n (it started on that queue, as its latest finish), and on the queue the
\* user runs the named finish events never outnumber the named start events.
C20_FinishIsOfNamedEntry ==
    /\ \A j \in Idx :
          (trace[j].k = "emit" /\ trace[j].ev = "finish" /\ Len(trace[j].args) = 2) =>
              \E i \in Named(trace[j].q, trace[j].args[2]) :
                  LET fn == tests[trace[j].q][i].fn IN
                  /\ fn.type = "queue"
                  /\ trace[j].src = fn.queue
                  /\ \E x \in 1..(j - 1) :
                        /\ Is(x, "emit", fn.queue)
                        /\ trace[x].src = fn.queue
                        /\ trace[x].ev = "finish"
                        /\ trace[x].args[1] = trace[j].args[1]
    /\ \A j \in Idx : QueueDepth(j) >= 0


\* C11: after toConsole, the promise run() returns rejects with the results
\* when a test failed and resolves with the results when none did, and it
\* settles whenever the run completes.
C11_ConsoleKeepsOutcome ==
    \A i \in DOMAIN wrapped :
        LET inner == promises[wrapped[i].of] IN
        /\ wrapped[i].state # "pending" =>
              /\ inner.state # "pending"
              /\ wrapped[i].state =
                    (IF inner.value.failed > 0 THEN "rejected" ELSE "resolved")
              /\ wrapped[i].value = <<inner.value>>
        /\ (Quiescent /\ Completes) => wrapped[i].state # "pending"


\* Every run() called so far, of any queue of the tree, has emitted its
\* finish event and its promise has settled.
AllFinished ==
    \A q \in Queues : \A r \in RunsOf(q) :
        /\ OwnEmits(q, r, "finish") # {}
        /\ promises[trace[r].p].state # "pending"

\* C18: with callbacks scheduled fairly, when setup and teardown complete and
\* every leaf calls pass or fail or throws, a run() on any tree of nested
\* queues leads to a state where each queue that was run has emitted finish
\* and the promise of each run has settled.
C18_RunTerminates ==
    (Completes /\ RootRuns # {}) ~> AllFinished

C18_Witness ==
    /\ Completes /\ AllFinished /\ Quiescent
    /\ Cardinality(RunsOf(Root)) = 2
    /\ RunsOf(2) # {} /\ RunsOf(3) # {}
    /\ \E j \in Idx : trace[j].k = "outcome" /\ trace[j].via = "onError"


\* The records of one kind of queue q, and its own events of one name, over
\* all its runs.
AllOf(q, kind) == {j \in Idx : Is(j, kind, q)}
AllOwnEmits(q, ev) == {j \in EmitsFrom(q, q) : trace[j].ev = ev}

\* The run() calls of q made while the promise of an earlier call of q had
\* not settled, each with that earlier call.
Overlaps(q) ==
    {x \in RunsOf(q) \X RunsOf(q) :
        /\ x[1] < x[2]
        /\ \A j \in x[1]..x[2] : ~(Is(j, "settle", q) /\ trace[j].p = trace[x[1]].p)}

\* C19: when run() is called on the queue again before its first run has
\* settled (everything completing), every promise run() returned settles,
\* teardown and the queue's own finish happen once per run() call, and at
\* most one entry is in flight at a time.
C19_OverlappingRunsSettle ==
    Overlaps(Root) # {} =>
        /\ Cardinality(AllOf(Root, "dispatch")) - Cardinality(AllOf(Root, "outcome")) <= 1
        /\ (Quiescent /\ Completes) =>
              /\ \A p \in RootRuns : promises[p].state # "pending"
              /\ Cardinality(AllOf(Root, "teardown")) = Cardinality(RunsOf(Root))
              /\ Cardinality(AllOwnEmits(Root, "finish")) = Cardinality(RunsOf(Root))

\* C19, as the code has it: of the promises of overlapping run() calls on a
\* queue only the one of the latest call ever settles and an earlier one
\* stays pending; teardown and the queue's own finish happen at most once
\* per run() call, teardown right with each finish; and a queue has at most
\* as many entries in flight as run() was called on it. When everything
\* completes, the promise of the latest call on the queue the user runs
\* settles.
C19_OnlyLatestSettles ==
    /\ \A q \in Queues :
          /\ \A x \in Overlaps(q) : promises[trace[x[1]].p].state = "pending"
          /\ \A j \in AllOf(q, "settle") :
                \A r \in RunsOf(q) : r < j => trace[r].p <= trace[j].p
          /\ Cardinality(AllOf(q, "teardown")) = Cardinality(AllOwnEmits(q, "finish"))
          /\ Cardinality(AllOwnEmits(q, "finish")) <= Cardinality(RunsOf(q))
          /\ Cardinality(AllOf(q, "dispatch")) - Cardinality(AllOf(q, "outcome"))
                \in 0..Cardinality(RunsOf(q))
    /\ (Quiescent /\ Completes /\ RootRuns # {}) =>
          promises[resolver[Root]].state # "pending"

C19_Witness ==
    /\ Quiescent /\ Completes
    /\ Overlaps(Root) # {}
    /\ Cardinality(AllOf(Root, "dispatch")) - Cardinality(AllOf(Root, "outcome")) = 1
    /\ Cardinality(AllOwnEmits(Root, "finish")) = 1
    /\ promises[1].state = "pending"
    /\ promises[resolver[Root]].state = "resolved"

====
